---- MODULE Spec2Model ----
(***************************************************************************)
(* State-machine model of shim (src/src/main.rs, src/src/shell.rs): the    *)
(* Model struct, the key dispatcher handle_key and the reducer update,     *)
(* driven by the main loop (render, read one key, apply one Message).      *)
(*                                                                         *)
(* Strings are sequences of UTF-8 bytes, so that String::len,              *)
(* String::insert, String::pop and String::from_utf8 behave as in Rust:    *)
(*   "a"  an ASCII letter (one byte)                                       *)
(*   " "  an ASCII space  (one byte, whitespace)                           *)
(*   "U"  the lead byte of a two-byte character, always followed by        *)
(*   "~"  a continuation byte                                              *)
(*   "LF" the line feed (only in captured stdout)                          *)
(* Option values are sequences: <<>> is None and <<v>> is Some(v).         *)
(***************************************************************************)
EXTENDS Integers, Sequences, FiniteSets, TLC

\* ------------------------------------------------------------------ bounds
\* Largest value of the column/row/scroll type (u16 in the source, scaled).
U16_MAX == 10
\* Most bytes of typed text the session holds (the live buffer plus the
\* history) after a character is typed.
MaxBytes == 2
\* Most commands submitted in one session.
MaxHistory == 2
\* Rightmost column the cursor is moved to inside the output pane.
MaxCol == 2
\* Tallest output pane the renderer reports.
MaxHeight == 2

\* ------------------------------------------------------- program constants
\* Lines scrolled by one ScrollDown / ScrollUp.
ScrollStep == 10

\* ------------------------------------------------------------------ inputs
\* Characters typed in Insert mode.
TypedChars == {"a", " ", "U"}
\* Characters of the keys the Normal-mode table binds.
BoundChars == {"d", "n", "p", "i", "o", "u", "a", "I", "A", "h", "j", "k", "l"}
\* Key events: a character with or without Ctrl, or a named key.
Keys ==
    [code : {"Char"}, c : TypedChars \cup BoundChars, ctrl : BOOLEAN]
        \cup [code : {"Esc", "Backspace", "Enter", "Tab"}, c : {""}, ctrl : {FALSE}]
\* Output-pane heights the layout can produce (layout[1].height - 2, saturating).
Heights == 0 .. MaxHeight
\* Byte strings a spawned command can write to its stdout: two lines of
\* different lengths, and a byte string that is not valid UTF-8.
StdoutChoices ==
    { <<"a", "a", "LF", "a", "LF">>,
      <<"a", "~">> }

\* ----------------------------------------------------------------- helpers
None == <<>>
Some(v) == <<v>>
IsSome(o) == o # <<>>
Unwrap(o) == o[1]

Min(a, b) == IF a <= b THEN a ELSE b
Max(a, b) == IF a >= b THEN a ELSE b

\* u16 arithmetic.
saturating_add(a, b) == Min(a + b, U16_MAX)
saturating_sub(a, b) == Max(a - b, 0)
as_u16(n) == n % (U16_MAX + 1)
\* a + b on u16 without overflow checks (release build): wraps.
wrapping_add(a, b) == (a + b) % (U16_MAX + 1)

\* Vec::get / str index: 0-based, None when out of range.
Get(v, i) == IF i >= 0 /\ i < Len(v) THEN Some(v[i + 1]) ELSE None

\* char::encode_utf8
Utf8(c) == IF c = "U" THEN <<"U", "~">> ELSE <<c>>

\* str::is_char_boundary
is_char_boundary(s, idx) ==
    IF idx = 0 THEN TRUE
    ELSE IF idx >= Len(s) THEN idx = Len(s)
    ELSE s[idx + 1] # "~"

\* String::insert(idx, c), defined when is_char_boundary(s, idx).
StringInsert(s, idx, c) ==
    SubSeq(s, 1, idx) \o Utf8(c) \o SubSeq(s, idx + 1, Len(s))

\* String::pop: removes the last character (all its bytes), if any.
StringPop(s) ==
    IF s = <<>> THEN s
    ELSE IF s[Len(s)] = "~" THEN SubSeq(s, 1, Len(s) - 2)
    ELSE SubSeq(s, 1, Len(s) - 1)

\* String::from_utf8 succeeds: every lead byte is followed by a continuation
\* byte and every continuation byte follows a lead byte.
from_utf8_ok(bytes) ==
    \A i \in 1 .. Len(bytes) :
        /\ bytes[i] = "U" => (i < Len(bytes) /\ bytes[i + 1] = "~")
        /\ bytes[i] = "~" => (i > 1 /\ bytes[i - 1] = "U")

\* str::lines: the text split at line feeds, without a final empty line.
RECURSIVE Lines(_)
Lines(s) ==
    IF s = <<>> THEN <<>>
    ELSE LET nl == {i \in 1 .. Len(s) : s[i] = "LF"}
         IN IF nl = {} THEN <<s>>
            ELSE LET i == CHOOSE j \in nl : \A k \in nl : j <= k
                 IN <<SubSeq(s, 1, i - 1)>> \o Lines(SubSeq(s, i + 1, Len(s)))

\* split_whitespace().next() is Some: the command has a token.
HasToken(command) == \E i \in 1 .. Len(command) : command[i] # " "

\* shell::run: the set of values it can return for a command. None when there
\* is no token (nothing is spawned) or the spawn fails; otherwise the stdout.
run(command) ==
    IF HasToken(command)
    THEN {None} \cup {Some(b) : b \in StdoutChoices}
    ELSE {None}

\* ------------------------------------------------------------------- state
VARIABLES
    model,      \* the Model struct owned by main
    msg,        \* the Option<Message> handle_event returned in the last iteration
    run_ret,    \* the Option<Output> shell::run returned in the last update
    panicked,   \* "no", or the panic that ended the process
    term        \* the terminal and where main is (see TermInLoop)

vars == <<model, msg, run_ret, panicked, term>>

\* enum Cursor
CommandLine(x) == [kind |-> "CommandLine", x |-> x, y |-> 0]
OutputBuffer(x, y) == [kind |-> "OutputBuffer", x |-> x, y |-> y]

\* Cursor::left
Cursor_left(c) == [c EXCEPT !.x = saturating_sub(c.x, 1)]

\* Cursor::right
Cursor_right(c) == [c EXCEPT !.x = saturating_add(c.x, 1)]

\* Mutant of Cursor_right_capped: the cap is applied to neither variant.
Cursor_right_capped_NoCap(c, max) == [c EXCEPT !.x = saturating_add(c.x, 1)]

\* Cursor::right_capped: the cap is applied to the CommandLine variant only.
Cursor_right_capped(c, max) ==
    IF c.kind = "CommandLine"
    THEN [c EXCEPT !.x = Min(saturating_add(c.x, 1), max)]
    ELSE [c EXCEPT !.x = saturating_add(c.x, 1)]

\* Model::default
Model_default ==
    [ cursor            |-> CommandLine(0),
      mode              |-> "Insert",
      running_state     |-> "Running",
      outputs           |-> <<>>,
      previous_commands |-> <<>>,
      viewing_output    |-> 0,
      current_command   |-> <<>>,
      viewing_command   |-> None,
      height            |-> 0 ]

\* Model::get_command_len
get_command_len(m) ==
    LET s == IF IsSome(m.viewing_command)
             THEN Get(m.previous_commands, Unwrap(m.viewing_command))
             ELSE None
    IN IF IsSome(s) THEN as_u16(Len(Unwrap(s))) ELSE as_u16(Len(m.current_command))

\* Message::is_editing_command
is_editing_command(message) ==
    message[1] \in {"Submit", "WriteCommandChar", "Backspace"}

\* view: the only field of the model the renderer writes is height.
view(m, h) == [m EXCEPT !.height = h]

\* handle_key: the Option<Message> for a key in a mode.
handle_key(mode, key) ==
    IF mode = "Insert"
    THEN CASE key.code = "Char" /\ key.c = "d" /\ key.ctrl -> <<"Quit">>
           [] key.code = "Char" /\ ~(key.c = "d" /\ key.ctrl) -> <<"WriteCommandChar", key.c>>
           [] key.code = "Esc" -> <<"Normal">>
           [] key.code = "Backspace" -> <<"Backspace">>
           [] key.code = "Enter" -> <<"Submit">>
           [] OTHER -> None
    ELSE CASE key.code = "Char" /\ key.ctrl /\ key.c = "n" -> <<"NextOutput">>
           [] key.code = "Char" /\ key.ctrl /\ key.c = "p" -> <<"PreviousOutput">>
           [] key.code = "Char" /\ key.ctrl /\ key.c = "i" -> <<"InCommand">>
           [] key.code = "Char" /\ key.ctrl /\ key.c = "o" -> <<"OutCommand">>
           [] key.code = "Char" /\ key.ctrl /\ key.c = "u" -> <<"ScrollUp">>
           [] key.code = "Char" /\ key.ctrl /\ key.c = "d" -> <<"ScrollDown">>
           [] key.code = "Char" /\ ~key.ctrl /\ key.c = "i" -> <<"InsertBefore">>
           [] key.code = "Char" /\ ~key.ctrl /\ key.c = "a" -> <<"InsertAfter">>
           [] key.code = "Char" /\ ~key.ctrl /\ key.c = "I" -> <<"InsertBeforeLine">>
           [] key.code = "Char" /\ ~key.ctrl /\ key.c = "A" -> <<"InsertAfterLine">>
           [] key.code = "Char" /\ ~key.ctrl /\ key.c = "h" -> <<"Left">>
           [] key.code = "Char" /\ ~key.ctrl /\ key.c = "j" -> <<"Down">>
           [] key.code = "Char" /\ ~key.ctrl /\ key.c = "k" -> <<"Up">>
           [] key.code = "Char" /\ ~key.ctrl /\ key.c = "l" -> <<"Right">>
           [] OTHER -> None

\* The messages handle_key can return in each mode, over all keys.
dispatch == [mode \in {"Insert", "Normal"} |-> {handle_key(mode, key) : key \in Keys}]

\* Some key is dispatched to this message in the model's mode.
Dispatched(message) == message \in dispatch[model.mode]

\* ----------------------------------------------------------------- reducer
\* What one call of update leaves behind: the model, and "no" or the panic
\* that unwound out of it (the model then holds the writes made before it).
Ok(m) == [model |-> m, panic |-> "no"]
Panic(m, why) == [model |-> m, panic |-> why]

\* Mutant of editing_pre_step: the peek is cleared without being copied into
\* the live buffer.
editing_pre_step_NoCopy(m) == [m EXCEPT !.viewing_command = None]

\* update, the pre-step of an editing message: an active peek becomes the
\* live buffer and the peek is cleared.
editing_pre_step(m) ==
    [m EXCEPT
        !.current_command =
            IF IsSome(m.viewing_command)
            THEN LET e == Get(m.previous_commands, Unwrap(m.viewing_command))
                 IN IF IsSome(e) THEN Unwrap(e) ELSE <<>>
            ELSE @,
        !.viewing_command = None]

\* update, Message::Down. y + 1 cannot overflow: y < height <= U16_MAX when set.
update_Down(m) ==
    IF m.cursor.kind = "CommandLine" THEN Ok(m)
    ELSE IF m.cursor.y + 1 >= m.height
         THEN Ok([m EXCEPT !.cursor = CommandLine(m.cursor.x)])
         ELSE Ok([m EXCEPT !.cursor = OutputBuffer(m.cursor.x, m.cursor.y + 1)])

\* Mutant of update_Up: from the command line the cursor lands on row height,
\* one past the bottom row.
update_Up_OffByOne(m) ==
    IF m.cursor.kind = "CommandLine"
    THEN Ok([m EXCEPT !.cursor = OutputBuffer(m.cursor.x, m.height)])
    ELSE Ok([m EXCEPT !.cursor = OutputBuffer(m.cursor.x, saturating_sub(m.cursor.y, 1))])

\* update, Message::Up
update_Up(m) ==
    IF m.cursor.kind = "CommandLine"
    THEN Ok([m EXCEPT !.cursor = OutputBuffer(m.cursor.x, saturating_sub(m.height, 1))])
    ELSE Ok([m EXCEPT !.cursor = OutputBuffer(m.cursor.x, saturating_sub(m.cursor.y, 1))])

\* update, Message::Left
update_Left(m) == Ok([m EXCEPT !.cursor = Cursor_left(m.cursor)])

\* update, Message::Right. overflow_checks is the build's setting: with it
\* y + scroll.0 past u16::MAX panics, without it the sum wraps.
update_Right(m, overflow_checks) ==
    IF m.cursor.kind = "CommandLine"
    THEN LET max == IF IsSome(m.viewing_command)
                    THEN LET e == Get(m.previous_commands, Unwrap(m.viewing_command))
                         IN IF IsSome(e) THEN Len(Unwrap(e)) ELSE 0
                    ELSE Len(m.current_command)
         IN Ok([m EXCEPT !.cursor = Cursor_right_capped(m.cursor, as_u16(max))])
    ELSE LET o == Get(m.outputs, m.viewing_output)
         IN IF ~IsSome(o)
            THEN Ok([m EXCEPT !.cursor = Cursor_right_capped(m.cursor, 0)])
            ELSE LET sum   == m.cursor.y + Unwrap(o).scroll[1]
                     lines == Lines(Unwrap(o).stdout)
                     s     == Get(lines, wrapping_add(m.cursor.y, Unwrap(o).scroll[1]))
                 IN IF sum > U16_MAX /\ overflow_checks
                    THEN Panic(m, "attempt to add with overflow")
                    ELSE IF ~IsSome(s)
                    THEN Panic(m, "called Option::unwrap() on a None value")
                    ELSE Ok([m EXCEPT !.cursor =
                                Cursor_right_capped(m.cursor, as_u16(Len(Unwrap(s))))])

\* update, Message::Submit, the block that records the output: given what
\* shell::run returned, a new Output is pushed and viewed when the bytes decode.
push_output(m, ret) ==
    IF IsSome(ret) /\ from_utf8_ok(Unwrap(ret))
    THEN [m EXCEPT
            !.outputs = Append(@,
                [ command |-> m.current_command,
                  stdout  |-> Unwrap(ret),
                  scroll  |-> << saturating_sub(as_u16(Len(Lines(Unwrap(ret)))),
                                                m.height), 0 >> ]),
            !.viewing_output = Len(m.outputs) + 1 - 1]
    ELSE m

\* Mutant of update_Submit: the command is recorded only when run returned
\* an output.
update_Submit_HistoryOnSuccess(m, ret) ==
    Ok([push_output(m, ret) EXCEPT
            !.previous_commands = IF IsSome(ret) THEN Append(@, m.current_command) ELSE @,
            !.viewing_command = None,
            !.current_command = <<>>,
            !.cursor = CommandLine(0)])

\* Mutant of update_Submit: the cursor is left where it was.
update_Submit_KeepsCursor(m, ret) ==
    Ok([push_output(m, ret) EXCEPT
            !.previous_commands = Append(@, m.current_command),
            !.viewing_command = None,
            !.current_command = <<>>])

\* update, Message::Submit, given what shell::run returned for the command.
update_Submit(m, ret) ==
    Ok([push_output(m, ret) EXCEPT
            !.previous_commands = Append(@, m.current_command),
            !.viewing_command = None,
            !.current_command = <<>>,
            !.cursor = CommandLine(0)])

\* update, Message::Quit
update_Quit(m) == Ok([m EXCEPT !.running_state = "Done"])

\* Mutant of update_NextOutput: the index is incremented without the clamp.
update_NextOutput_NoClamp(m) ==
    IF m.outputs = <<>>
    THEN Ok([m EXCEPT !.viewing_output = 0])
    ELSE Ok([m EXCEPT !.viewing_output = m.viewing_output + 1])

\* update, Message::NextOutput
update_NextOutput(m) ==
    IF m.outputs = <<>>
    THEN Ok([m EXCEPT !.viewing_output = 0])
    ELSE Ok([m EXCEPT !.viewing_output = Min(Len(m.outputs) - 1, m.viewing_output + 1)])

\* update, Message::PreviousOutput
update_PreviousOutput(m) ==
    IF m.outputs = <<>>
    THEN Ok([m EXCEPT !.viewing_output = 0])
    ELSE Ok([m EXCEPT !.viewing_output = Max(m.viewing_output - 1, 0)])

\* update, Message::WriteCommandChar(c). String::insert panics unless the
\* index is a character boundary of the string (which includes idx <= len).
update_WriteCommandChar(m, c) ==
    IF m.cursor.kind = "OutputBuffer"
    THEN Panic(m, "not supposed to write character to command when cursor is in output buffer")
    ELSE IF ~is_char_boundary(m.current_command, m.cursor.x)
    THEN Panic(m, "assertion failed: self.is_char_boundary(idx)")
    ELSE Ok([m EXCEPT
                !.current_command = StringInsert(@, m.cursor.x, c),
                !.cursor = Cursor_right(@)])

\* Mutant of update_Normal: leaving Insert mode also moves the cursor one
\* column to the left.
update_Normal_MovesCursor(m) ==
    Ok([m EXCEPT !.mode = "Normal", !.cursor = Cursor_left(@)])

\* update, Message::Normal
update_Normal(m) == Ok([m EXCEPT !.mode = "Normal"])

\* Mutant of update_InsertBefore: the column is capped but the cursor stays
\* in the pane it was in.
update_InsertBefore_KeepsPane(m) ==
    Ok([m EXCEPT
            !.mode = "Insert",
            !.cursor = [@ EXCEPT !.x = Min(get_command_len(m), m.cursor.x)]])

\* update, Message::InsertBefore
update_InsertBefore(m) ==
    Ok([m EXCEPT
            !.mode = "Insert",
            !.cursor = CommandLine(Min(get_command_len(m), m.cursor.x))])

\* update, Message::InsertAfter. x + 1 past u16::MAX panics with overflow
\* checks (after mode was set) and wraps to 0 without them.
update_InsertAfter(m, overflow_checks) ==
    IF m.cursor.x + 1 > U16_MAX /\ overflow_checks
    THEN Panic([m EXCEPT !.mode = "Insert"], "attempt to add with overflow")
    ELSE Ok([m EXCEPT
                !.mode = "Insert",
                !.cursor = CommandLine(Min(get_command_len(m), wrapping_add(m.cursor.x, 1)))])

\* update, Message::Backspace
update_Backspace(m) ==
    Ok([m EXCEPT
            !.cursor = Cursor_left(@),
            !.current_command = StringPop(@)])

\* Mutant of update_OutCommand: a new peek starts at len() instead of len() - 1.
update_OutCommand_OffByOne(m) ==
    IF IsSome(m.viewing_command)
    THEN Ok([m EXCEPT !.viewing_command = Some(Max(Unwrap(m.viewing_command) - 1, 0))])
    ELSE IF m.previous_commands # <<>>
    THEN Ok([m EXCEPT !.viewing_command = Some(Len(m.previous_commands))])
    ELSE Ok(m)

\* update, Message::OutCommand
update_OutCommand(m) ==
    IF IsSome(m.viewing_command)
    THEN Ok([m EXCEPT !.viewing_command = Some(Max(Unwrap(m.viewing_command) - 1, 0))])
    ELSE IF m.previous_commands # <<>>
    THEN Ok([m EXCEPT !.viewing_command = Some(Len(m.previous_commands) - 1)])
    ELSE Ok(m)

\* Mutant of update_InCommand: the peek is cleared only past the last index
\* (curr > len() - 1), so the newest entry advances to an index out of range.
update_InCommand_LateClear(m, overflow_checks) ==
    IF ~IsSome(m.viewing_command) THEN Ok(m)
    ELSE IF Unwrap(m.viewing_command) > Len(m.previous_commands) - 1
    THEN Ok([m EXCEPT !.viewing_command = None])
    ELSE Ok([m EXCEPT !.viewing_command = Some(Unwrap(m.viewing_command) + 1)])

\* update, Message::InCommand. len() - 1 on an empty history underflows usize:
\* a panic with overflow checks, usize::MAX without them.
update_InCommand(m, overflow_checks) ==
    IF ~IsSome(m.viewing_command) THEN Ok(m)
    ELSE IF m.previous_commands = <<>>
    THEN IF overflow_checks
         THEN Panic(m, "attempt to subtract with overflow")
         ELSE Ok([m EXCEPT !.viewing_command = Some(Unwrap(m.viewing_command) + 1)])
    ELSE IF Unwrap(m.viewing_command) >= Len(m.previous_commands) - 1
    THEN Ok([m EXCEPT !.viewing_command = None])
    ELSE Ok([m EXCEPT !.viewing_command = Some(Unwrap(m.viewing_command) + 1)])

\* update, Message::ScrollDown
update_ScrollDown(m) ==
    IF IsSome(Get(m.outputs, m.viewing_output))
    THEN Ok([m EXCEPT !.outputs[m.viewing_output + 1].scroll =
                        << saturating_add(@[1], ScrollStep), @[2] >>])
    ELSE Ok(m)

\* Mutant of update_ScrollUp: the subtraction does not saturate.
update_ScrollUp_NoSaturate(m) ==
    IF IsSome(Get(m.outputs, m.viewing_output))
    THEN Ok([m EXCEPT !.outputs[m.viewing_output + 1].scroll =
                        << @[1] - ScrollStep, @[2] >>])
    ELSE Ok(m)

\* update, Message::ScrollUp
update_ScrollUp(m) ==
    IF IsSome(Get(m.outputs, m.viewing_output))
    THEN Ok([m EXCEPT !.outputs[m.viewing_output + 1].scroll =
                        << saturating_sub(@[1], ScrollStep), @[2] >>])
    ELSE Ok(m)

\* update, Message::InsertBeforeLine
update_InsertBeforeLine(m) ==
    Ok([m EXCEPT !.mode = "Insert", !.cursor = CommandLine(0)])

\* update, Message::InsertAfterLine
update_InsertAfterLine(m) ==
    Ok([m EXCEPT !.mode = "Insert", !.cursor = CommandLine(get_command_len(m))])

\* --------------------------------------------------------------- main loop
\* The terminal once init_terminal has returned Ok and main is in its loop:
\* raw mode and the alternate screen are on, the panic hook is installed, and
\* neither LeaveAlternateScreen nor disable_raw_mode has been executed.
TermInLoop ==
    [ pc               |-> "loop",
      hook             |-> TRUE,
      raw_mode         |-> TRUE,
      alternate_screen |-> TRUE,
      leaves           |-> 0,
      disables         |-> 0,
      release_failed   |-> FALSE ]

\* Mutant of Live: the loop does not test running_state.
Live_NoExit == panicked = "no" /\ term.pc = "loop"

\* main is in its loop: it runs while running_state is not Done, and a panic
\* ends the process.
Live == model.running_state = "Running" /\ panicked = "no" /\ term.pc = "loop"

\* Bytes of typed text the model holds: the live buffer and the history.
RECURSIVE TotalLen(_)
TotalLen(v) == IF v = <<>> THEN 0 ELSE Len(Head(v)) + TotalLen(Tail(v))
StoredBytes(m) == Len(m.current_command) + TotalLen(m.previous_commands)

\* The update's pre-step for a message.
Pre(m, message) == IF is_editing_command(message) THEN editing_pre_step(m) ELSE m

\* One iteration of main's loop that handled `message`: r is what update left.
Iterate(message, r, ret) ==
    /\ model' = r.model
    /\ panicked' = r.panic
    /\ msg' = message
    /\ run_ret' = ret
    /\ term' = IF r.panic = "no" THEN term ELSE [term EXCEPT !.pc = "panicking"]

Init ==
    /\ model = Model_default
    /\ msg = None
    /\ run_ret = None
    /\ panicked = "no"
    /\ term = TermInLoop

\* An iteration in which handle_event returns None: the poll times out, the
\* event is no key press, or the key is bound to nothing. Only view ran.
NoMessage ==
    /\ Live
    /\ \E h \in Heights : Iterate(None, Ok(view(model, h)), None)

Down ==
    /\ Live
    /\ Dispatched(<<"Down">>)
    /\ \E h \in Heights : Iterate(<<"Down">>, update_Down(view(model, h)), None)

Up ==
    /\ Live
    /\ Dispatched(<<"Up">>)
    /\ \E h \in Heights : Iterate(<<"Up">>, update_Up(view(model, h)), None)

Left ==
    /\ Live
    /\ Dispatched(<<"Left">>)
    /\ \E h \in Heights : Iterate(<<"Left">>, update_Left(view(model, h)), None)

Right ==
    /\ Live
    /\ Dispatched(<<"Right">>)
    /\ model.cursor.kind = "OutputBuffer" => model.cursor.x < MaxCol
    /\ \E h \in Heights, overflow_checks \in BOOLEAN :
          Iterate(<<"Right">>, update_Right(view(model, h), overflow_checks), None)

Submit ==
    /\ Live
    /\ Dispatched(<<"Submit">>)
    /\ Len(model.previous_commands) < MaxHistory
    /\ \E h \in Heights :
          LET m == Pre(view(model, h), <<"Submit">>)
          IN \E ret \in run(m.current_command) :
                Iterate(<<"Submit">>, update_Submit(m, ret), ret)

Quit ==
    /\ Live
    /\ Dispatched(<<"Quit">>)
    /\ \E h \in Heights : Iterate(<<"Quit">>, update_Quit(view(model, h)), None)

NextOutput ==
    /\ Live
    /\ Dispatched(<<"NextOutput">>)
    /\ \E h \in Heights :
          Iterate(<<"NextOutput">>, update_NextOutput(view(model, h)), None)

PreviousOutput ==
    /\ Live
    /\ Dispatched(<<"PreviousOutput">>)
    /\ \E h \in Heights :
          Iterate(<<"PreviousOutput">>, update_PreviousOutput(view(model, h)), None)

WriteCommandChar ==
    /\ Live
    /\ \E c \in TypedChars, h \in Heights :
          LET message == <<"WriteCommandChar", c>>
              r == update_WriteCommandChar(Pre(view(model, h), message), c)
          IN /\ Dispatched(message)
             /\ r.panic = "no" => StoredBytes(r.model) <= MaxBytes
             /\ Iterate(message, r, None)

Normal ==
    /\ Live
    /\ Dispatched(<<"Normal">>)
    /\ \E h \in Heights : Iterate(<<"Normal">>, update_Normal(view(model, h)), None)

InsertBefore ==
    /\ Live
    /\ Dispatched(<<"InsertBefore">>)
    /\ \E h \in Heights :
          Iterate(<<"InsertBefore">>, update_InsertBefore(view(model, h)), None)

InsertAfter ==
    /\ Live
    /\ Dispatched(<<"InsertAfter">>)
    /\ \E h \in Heights, overflow_checks \in BOOLEAN :
          Iterate(<<"InsertAfter">>,
                  update_InsertAfter(view(model, h), overflow_checks), None)

Backspace ==
    /\ Live
    /\ Dispatched(<<"Backspace">>)
    /\ \E h \in Heights :
          Iterate(<<"Backspace">>,
                  update_Backspace(Pre(view(model, h), <<"Backspace">>)), None)

OutCommand ==
    /\ Live
    /\ Dispatched(<<"OutCommand">>)
    /\ \E h \in Heights :
          Iterate(<<"OutCommand">>, update_OutCommand(view(model, h)), None)

InCommand ==
    /\ Live
    /\ Dispatched(<<"InCommand">>)
    /\ \E h \in Heights, overflow_checks \in BOOLEAN :
          Iterate(<<"InCommand">>,
                  update_InCommand(view(model, h), overflow_checks), None)

ScrollDown ==
    /\ Live
    /\ Dispatched(<<"ScrollDown">>)
    /\ \E h \in Heights :
          Iterate(<<"ScrollDown">>, update_ScrollDown(view(model, h)), None)

ScrollUp ==
    /\ Live
    /\ Dispatched(<<"ScrollUp">>)
    /\ \E h \in Heights :
          Iterate(<<"ScrollUp">>, update_ScrollUp(view(model, h)), None)

InsertBeforeLine ==
    /\ Live
    /\ Dispatched(<<"InsertBeforeLine">>)
    /\ \E h \in Heights :
          Iterate(<<"InsertBeforeLine">>, update_InsertBeforeLine(view(model, h)), None)

InsertAfterLine ==
    /\ Live
    /\ Dispatched(<<"InsertAfterLine">>)
    /\ \E h \in Heights :
          Iterate(<<"InsertAfterLine">>, update_InsertAfterLine(view(model, h)), None)

Next ==
    \/ NoMessage
    \/ Down
    \/ Up
    \/ Left
    \/ Right
    \/ Submit
    \/ Quit
    \/ NextOutput
    \/ PreviousOutput
    \/ WriteCommandChar
    \/ Normal
    \/ InsertBefore
    \/ InsertAfter
    \/ Backspace
    \/ OutCommand
    \/ InCommand
    \/ ScrollDown
    \/ ScrollUp
    \/ InsertBeforeLine
    \/ InsertAfterLine

Spec == Init /\ [][Next]_vars

\* Right with the cursor anywhere: the column in the output pane runs up to
\* the largest value of its type.
RightAnyColumn ==
    /\ Live
    /\ Dispatched(<<"Right">>)
    /\ \E h \in Heights, overflow_checks \in BOOLEAN :
          Iterate(<<"Right">>, update_Right(view(model, h), overflow_checks), None)

\* The main loop of a session in which no command is submitted: typing,
\* leaving and entering Insert mode, and moving the cursor through every column.
NextCols ==
    \/ NoMessage
    \/ Down
    \/ Up
    \/ Left
    \/ RightAnyColumn
    \/ WriteCommandChar
    \/ Normal
    \/ InsertBefore
    \/ InsertAfter
    \/ InsertBeforeLine
    \/ InsertAfterLine

SpecCols == Init /\ [][NextCols]_vars

\* ---------------------------------------------------------- main and tui
\* The process at the start of main: nothing acquired, no hook installed.
InitMain ==
    /\ model = Model_default
    /\ msg = None
    /\ run_ret = None
    /\ panicked = "no"
    /\ term = [ pc               |-> "start",
                hook             |-> FALSE,
                raw_mode         |-> FALSE,
                alternate_screen |-> FALSE,
                leaves           |-> 0,
                disables         |-> 0,
                release_failed   |-> FALSE ]

\* stdout().execute(LeaveAlternateScreen), which returned Ok iff ok.
LeaveAlternateScreen(t, ok) ==
    IF ok THEN [t EXCEPT !.alternate_screen = FALSE, !.leaves = @ + 1]
    ELSE [t EXCEPT !.release_failed = TRUE]

\* disable_raw_mode(), which returned Ok iff ok.
disable_raw_mode(t, ok) ==
    IF ok THEN [t EXCEPT !.raw_mode = FALSE, !.disables = @ + 1]
    ELSE [t EXCEPT !.release_failed = TRUE]

\* tui::install_panic_hook, the first statement of main.
install_panic_hook ==
    /\ term.pc = "start"
    /\ term' = [term EXCEPT !.hook = TRUE, !.pc = "init_terminal"]
    /\ UNCHANGED <<model, msg, run_ret, panicked>>

\* tui::init_terminal and the ? applied to it in main: the call that failed,
\* if any, returns its error from main; the calls before it have taken effect.
init_terminal ==
    /\ term.pc = "init_terminal"
    /\ \E failed \in {"none", "enable_raw_mode", "EnterAlternateScreen", "Terminal::new"} :
          term' = [term EXCEPT
                      !.raw_mode = failed # "enable_raw_mode",
                      !.alternate_screen =
                          failed \notin {"enable_raw_mode", "EnterAlternateScreen"},
                      !.pc = IF failed = "none" THEN "loop" ELSE "returned_err"]
    /\ UNCHANGED <<model, msg, run_ret, panicked>>

\* terminal.draw returns an error: main returns it.
draw_error ==
    /\ Live
    /\ term' = [term EXCEPT !.pc = "returned_err"]
    /\ UNCHANGED <<model, msg, run_ret, panicked>>

\* handle_event returns an error (event::poll or event::read failed) after
\* the frame was drawn: main returns it.
handle_event_error ==
    /\ Live
    /\ \E h \in Heights : model' = view(model, h)
    /\ term' = [term EXCEPT !.pc = "returned_err"]
    /\ UNCHANGED <<msg, run_ret, panicked>>

\* The hook install_panic_hook set, run by a panic: both calls are unwrapped,
\* so a failing one panics inside the hook and the process aborts.
panic_hook ==
    /\ term.pc = "panicking"
    /\ term.hook
    /\ \E ok1, ok2 \in BOOLEAN :
          LET t1 == LeaveAlternateScreen(term, ok1)
              t2 == disable_raw_mode(t1, ok2)
          IN term' = IF ~ok1 THEN [t1 EXCEPT !.pc = "aborted"]
                     ELSE [t2 EXCEPT !.pc = IF ok2 THEN "unwound" ELSE "aborted"]
    /\ UNCHANGED <<model, msg, run_ret, panicked>>

\* tui::restore_terminal after the loop, and main's return: a failing call
\* returns its error and skips the call after it.
restore_terminal ==
    /\ model.running_state = "Done"
    /\ term.pc = "loop"
    /\ \E ok1, ok2 \in BOOLEAN :
          LET t1 == LeaveAlternateScreen(term, ok1)
              t2 == disable_raw_mode(t1, ok2)
          IN term' = IF ~ok1 THEN [t1 EXCEPT !.pc = "returned_err"]
                     ELSE [t2 EXCEPT !.pc = IF ok2 THEN "returned_ok" ELSE "returned_err"]
    /\ UNCHANGED <<model, msg, run_ret, panicked>>

\* main from its first statement to the end of the process, for a session of
\* typing, editing and quitting.
NextMain ==
    \/ install_panic_hook
    \/ init_terminal
    \/ NoMessage
    \/ WriteCommandChar
    \/ Backspace
    \/ Normal
    \/ InsertAfterLine
    \/ Quit
    \/ draw_error
    \/ handle_event_error
    \/ panic_hook
    \/ restore_terminal

SpecMain == InitMain /\ [][NextMain]_vars

\* ------------------------------------------------------------------ claims
\* The last iteration applied the message of this name.
Applied(name) == msg # None /\ msg[1] = name

\* The text shown on the command line: the peeked entry when a peek is
\* active, the live buffer otherwise.
Displayed(m) ==
    IF IsSome(m.viewing_command)
    THEN LET e == Get(m.previous_commands, Unwrap(m.viewing_command))
         IN IF IsSome(e) THEN Unwrap(e) ELSE <<>>
    ELSE m.current_command

WriteInOutputPanic ==
    "not supposed to write character to command when cursor is in output buffer"

\* C1: while the process runs, mode = Insert implies the cursor is the
\* CommandLine variant, and no WriteCommandChar ever reached the panic branch
\* for a cursor in the output buffer.
C1_ModeInvariant ==
    /\ (panicked = "no" /\ model.mode = "Insert") => model.cursor.kind = "CommandLine"
    /\ panicked # WriteInOutputPanic

\* C1 witness: a character was written in Insert mode in a session that has
\* already run a command and gone through Normal mode.
C1_Witness ==
    /\ Applied("WriteCommandChar")
    /\ panicked = "no"
    /\ model.mode = "Insert"
    /\ model.cursor.kind = "CommandLine"
    /\ model.outputs # <<>>

\* C2: when WriteCommandChar, Backspace or Submit is applied while a peek is
\* active at index i, the intent acts on previous_commands[i]: a Submit runs
\* and records that entry, a Backspace leaves it without its last character,
\* a WriteCommandChar leaves it with the character inserted at the cursor (or
\* leaves it as the live buffer when the insertion panics); afterwards the
\* peek is cleared and every earlier history entry is as it was.
C2_PeekCollapse ==
    [][ (IsSome(model.viewing_command) /\ msg' # None /\ is_editing_command(msg'))
        => LET peek == model.previous_commands[Unwrap(model.viewing_command) + 1]
               n    == Len(model.previous_commands)
           IN /\ model'.viewing_command = None
              /\ Len(model'.previous_commands) >= n
              /\ SubSeq(model'.previous_commands, 1, n) = model.previous_commands
              /\ msg'[1] = "Submit" =>
                    /\ model'.previous_commands = Append(model.previous_commands, peek)
                    /\ Len(model'.outputs) > Len(model.outputs) =>
                          model'.outputs[Len(model'.outputs)].command = peek
              /\ msg'[1] = "Backspace" =>
                    /\ model'.current_command \o SubSeq(peek, Len(model'.current_command) + 1, Len(peek)) = peek
                    /\ peek # <<>> => Len(model'.current_command) < Len(peek)
              /\ (msg'[1] = "WriteCommandChar" /\ panicked' = "no") =>
                    /\ Len(model'.current_command) = Len(peek) + Len(Utf8(msg'[2]))
                    /\ \E k \in 0 .. Len(peek) :
                          model'.current_command =
                              SubSeq(peek, 1, k) \o Utf8(msg'[2]) \o SubSeq(peek, k + 1, Len(peek))
              /\ (msg'[1] = "WriteCommandChar" /\ panicked' # "no") =>
                    model'.current_command = peek
      ]_vars

\* C2 witness: a two-byte command was submitted twice. The session holds at
\* most MaxBytes = 2 typed bytes, so the second submission was not typed: it
\* is the peeked entry, collapsed into the live buffer and run again.
C2_Witness ==
    /\ Applied("Submit")
    /\ model.previous_commands = << <<"U", "~">>, <<"U", "~">> >>

\* C3: a Submit appends exactly one history entry, the command text submitted,
\* whatever shell::run returned; outputs grows by exactly one entry, which
\* becomes the viewed one, iff run returned bytes that decode as UTF-8, and
\* otherwise outputs and viewing_output are unchanged; a command without a
\* token is never run.
C3_SubmitRecords ==
    [][ (msg' # None /\ msg'[1] = "Submit")
        => LET cmd  == Displayed(model)
               text == IsSome(run_ret') /\ from_utf8_ok(Unwrap(run_ret'))
           IN /\ model'.previous_commands = Append(model.previous_commands, cmd)
              /\ ~HasToken(cmd) => run_ret' = None
              /\ text =>
                    /\ Len(model'.outputs) = Len(model.outputs) + 1
                    /\ SubSeq(model'.outputs, 1, Len(model.outputs)) = model.outputs
                    /\ model'.outputs[Len(model'.outputs)].stdout = Unwrap(run_ret')
                    /\ model'.viewing_output = Len(model'.outputs) - 1
              /\ ~text =>
                    /\ model'.outputs = model.outputs
                    /\ model'.viewing_output = model.viewing_output
      ]_vars

\* C3 witness: a command was run, its output did not decode, and the command
\* is in the history although no output was appended.
C3_Witness ==
    /\ Applied("Submit")
    /\ IsSome(run_ret)
    /\ ~from_utf8_ok(Unwrap(run_ret))
    /\ model.outputs = <<>>
    /\ Len(model.previous_commands) = 1
    /\ HasToken(model.previous_commands[1])

\* C4: after a Submit the live buffer is empty, no peek is active and the
\* cursor is CommandLine(0).
C4_AfterSubmit ==
    Applied("Submit") =>
        /\ model.current_command = <<>>
        /\ model.viewing_command = None
        /\ model.cursor = CommandLine(0)

\* C4 witness: a non-empty command was submitted (the cursor had moved off
\* column 0) and run, after an earlier command whose run failed.
C4_Witness ==
    /\ Applied("Submit")
    /\ Len(model.previous_commands) = 2
    /\ model.previous_commands[2] # <<>>
    /\ Len(model.outputs) = 1
    /\ run_ret # None

\* C5: a Left or Right applied to a CommandLine cursor whose column is within
\* the displayed text leaves a CommandLine cursor whose column is within the
\* displayed text; Left saturates at 0 and Right never moves left or past the
\* displayed length.
C5_LeftRightWithin ==
    [][ ( /\ msg' # None
          /\ msg'[1] \in {"Left", "Right"}
          /\ model.cursor.kind = "CommandLine"
          /\ model.cursor.x <= Len(Displayed(model)) )
        => LET x   == model.cursor.x
               len == Len(Displayed(model'))
           IN /\ panicked' = "no"
              /\ model'.cursor.kind = "CommandLine"
              /\ model'.cursor.x >= 0
              /\ model'.cursor.x <= len
              /\ msg'[1] = "Left" => model'.cursor.x = (IF x = 0 THEN 0 ELSE x - 1)
              /\ msg'[1] = "Right" => model'.cursor.x >= x
      ]_vars

\* C5 witness: Right was applied on the command line and the cursor is at the
\* end of a two-byte displayed text.
C5_Witness ==
    /\ Applied("Right")
    /\ model.cursor = CommandLine(2)
    /\ Len(Displayed(model)) = 2

\* C6: whenever the cursor is CommandLine(x), x is a column of the displayed
\* text: 0 <= x <= its length.
C6_ColumnWithinDisplayed ==
    model.cursor.kind = "CommandLine" =>
        (model.cursor.x >= 0 /\ model.cursor.x <= Len(Displayed(model)))

\* C7: an active peek indexes an existing history entry, and neither
\* OutCommand nor InCommand ever panics (len() - 1 is never evaluated on an
\* empty history).
C7_PeekIndexInRange ==
    /\ IsSome(model.viewing_command) =>
          /\ Unwrap(model.viewing_command) >= 0
          /\ Unwrap(model.viewing_command) < Len(model.previous_commands)
    /\ (Applied("OutCommand") \/ Applied("InCommand")) => panicked = "no"

\* C7 witness: OutCommand was applied and the peek is at the oldest of two
\* history entries.
C7_Witness ==
    /\ Applied("OutCommand")
    /\ Len(model.previous_commands) = 2
    /\ model.viewing_command = Some(0)

\* The model after an iteration that only changed these fields.
SameBut(m, h, vo) == [m EXCEPT !.height = h, !.viewing_output = vo]

\* C8: viewing_output is 0 when outputs is empty and an index of outputs
\* otherwise; NextOutput adds one clamped at len() - 1, PreviousOutput
\* subtracts one clamped at 0, and with no outputs both change nothing.
C8_ViewingOutputInRange ==
    /\ [](IF model.outputs = <<>>
          THEN model.viewing_output = 0
          ELSE model.viewing_output \in 0 .. Len(model.outputs) - 1)
    /\ [][ (msg' # None /\ msg'[1] \in {"NextOutput", "PreviousOutput"})
           => LET n  == Len(model.outputs)
                  vo == model.viewing_output
              IN /\ panicked' = "no"
                 /\ n = 0 => model' = SameBut(model, model'.height, vo)
                 /\ (n > 0 /\ msg'[1] = "NextOutput") =>
                       model' = SameBut(model, model'.height,
                                        IF vo + 1 <= n - 1 THEN vo + 1 ELSE n - 1)
                 /\ (n > 0 /\ msg'[1] = "PreviousOutput") =>
                       model' = SameBut(model, model'.height,
                                        IF vo >= 1 THEN vo - 1 ELSE 0)
         ]_vars

\* C8 witness: NextOutput was applied and the second of two outputs is viewed.
C8_Witness ==
    /\ Applied("NextOutput")
    /\ Len(model.outputs) = 2
    /\ model.viewing_output = 1

\* The model after m OutCommand messages, and after k InCommand messages.
RECURSIVE Older(_, _)
Older(m, n) == IF n = 0 THEN m ELSE Older(update_OutCommand(m).model, n - 1)
RECURSIVE Newer(_, _)
Newer(m, n) == IF n = 0 THEN m ELSE Newer(update_InCommand(m, TRUE).model, n - 1)

\* C9: from any running state without a peek, m OutCommand messages followed
\* by k >= m InCommand messages end without a peek, and the live buffer is the
\* same after every one of them.
C9_PeekRoundTrip ==
    (panicked = "no" /\ model.viewing_command = None) =>
        \A m \in 0 .. MaxHistory + 1 :
            /\ \A j \in 0 .. m :
                  Older(model, j).current_command = model.current_command
            /\ \A k \in m .. MaxHistory + 2 :
                  /\ Newer(Older(model, m), k).viewing_command = None
                  /\ \A j \in 0 .. k :
                        Newer(Older(model, m), j).current_command = model.current_command

\* C9 witness: InCommand was applied, no peek is active, the history has two
\* entries and the live buffer still holds text.
C9_Witness ==
    /\ Applied("InCommand")
    /\ model.viewing_command = None
    /\ Len(model.previous_commands) = 2
    /\ model.current_command # <<>>

\* The cursor a Down or Up leaves, as C10 states it, with the row Up gives
\* from the command line passed in.
PaneCrossing(rowFromCommandLine) ==
    LET c == model.cursor
        h == model'.height
    IN /\ (msg' # None /\ msg'[1] = "Down" /\ c.kind = "OutputBuffer") =>
             model'.cursor = (IF c.y + 1 >= h THEN CommandLine(c.x)
                                              ELSE OutputBuffer(c.x, c.y + 1))
       /\ (msg' # None /\ msg'[1] = "Down" /\ c.kind = "CommandLine") =>
             model'.cursor = c
       /\ (msg' # None /\ msg'[1] = "Up" /\ c.kind = "CommandLine") =>
             model'.cursor = OutputBuffer(c.x, rowFromCommandLine)
       /\ (msg' # None /\ msg'[1] = "Up" /\ c.kind = "OutputBuffer") =>
             model'.cursor = OutputBuffer(c.x, IF c.y >= 1 THEN c.y - 1 ELSE 0)

\* C10 as stated: Up from CommandLine(x) yields OutputPane(x, height - 1).
C10_PaneCrossing_AsStated == [][PaneCrossing(model'.height - 1)]_vars

\* C10 as amended: Up from CommandLine(x) yields OutputPane(x, max(height - 1,
\* 0)), a row from which Down at the same height returns to CommandLine(x);
\* the Down cases and Up inside the output pane are as stated.
C10_PaneCrossing ==
    [][ /\ PaneCrossing(IF model'.height >= 1 THEN model'.height - 1 ELSE 0)
        /\ (msg' # None /\ msg'[1] = "Up" /\ model.cursor.kind = "CommandLine") =>
              model'.cursor.y + 1 >= model'.height
      ]_vars

\* C10 witness: Up was applied with an output pane of height 0 and the cursor
\* is on row 0 of the output pane.
C10_Witness ==
    /\ Applied("Up")
    /\ model.height = 0
    /\ model.cursor = OutputBuffer(0, 0)

\* What a ScrollDown or ScrollUp leaves, with the vertical scroll a
\* ScrollDown gives passed in: only the vertical scroll of the viewed Output
\* changes (and the height the renderer reports); with no outputs nothing does.
ScrollEffect(downVert) ==
    (msg' # None /\ msg'[1] \in {"ScrollDown", "ScrollUp"})
    => LET i == model.viewing_output + 1
       IN /\ panicked' = "no"
          /\ model.outputs = <<>> => model' = [model EXCEPT !.height = model'.height]
          /\ model.outputs # <<>> =>
                LET v == model.outputs[i].scroll[1]
                    w == IF msg'[1] = "ScrollDown" THEN downVert
                         ELSE IF v >= ScrollStep THEN v - ScrollStep ELSE 0
                IN model' = [model EXCEPT !.height = model'.height,
                                          !.outputs[i].scroll = <<w, @[2]>>]

\* C11 as stated: ScrollDown adds ScrollStep to the vertical scroll.
C11_Scroll_AsStated ==
    [][ScrollEffect(model.outputs[model.viewing_output + 1].scroll[1] + ScrollStep)]_vars

\* C11 as amended: ScrollDown adds ScrollStep to the vertical scroll of the
\* viewed Output, saturating at the largest value of the scroll type; ScrollUp
\* subtracts ScrollStep saturating at 0; both leave the horizontal scroll,
\* every other Output, viewing_output, cursor and mode unchanged and change
\* nothing when outputs is empty.
C11_Scroll ==
    [][ScrollEffect(LET v == model.outputs[model.viewing_output + 1].scroll[1]
                    IN IF v + ScrollStep <= U16_MAX THEN v + ScrollStep ELSE U16_MAX)]_vars

\* C11 witness: ScrollDown was applied to the second of two outputs, whose
\* vertical scroll is now at the largest value while the first is not.
C11_Witness ==
    /\ Applied("ScrollDown")
    /\ Len(model.outputs) = 2
    /\ model.viewing_output = 1
    /\ model.outputs[2].scroll[1] = U16_MAX
    /\ model.outputs[1].scroll[1] < ScrollStep

\* The string without the character that starts at byte index i, if any.
RemoveAt(s, i) ==
    IF i >= Len(s) THEN s
    ELSE SubSeq(s, 1, i) \o SubSeq(s, i + Len(Utf8(s[i + 1])) + 1, Len(s))

\* Every character of the string is one byte, so columns are characters.
IsAscii(s) == \A i \in 1 .. Len(s) : s[i] \notin {"U", "~"}

\* C12: a Backspace applied with the cursor at CommandLine(x), x within a
\* displayed text of one-byte characters, moves the cursor to
\* x' = max(x - 1, 0) and leaves the displayed text without the character at
\* column x', all others in order.
C12_BackspaceBeforeCursor ==
    [][ ( /\ msg' # None
          /\ msg'[1] = "Backspace"
          /\ model.cursor.kind = "CommandLine"
          /\ IsAscii(Displayed(model))
          /\ model.cursor.x <= Len(Displayed(model)) )
        => LET x  == model.cursor.x
               nx == IF x >= 1 THEN x - 1 ELSE 0
           IN /\ model'.cursor = CommandLine(nx)
              /\ model'.current_command = RemoveAt(Displayed(model), nx)
      ]_vars

\* Number of characters of a string: every byte but the continuation bytes.
CharCount(s) == Cardinality({i \in 1 .. Len(s) : s[i] # "~"})

\* C13: a WriteCommandChar(c) applied with the cursor at CommandLine(x), x
\* within the displayed text old, completes and leaves
\* current_command = old[0..x] + c + old[x..], one character longer, with the
\* cursor at CommandLine(x + 1) and mode, outputs and previous_commands
\* unchanged.
C13_WriteInsertsAtCursor ==
    [][ ( /\ msg' # None
          /\ msg'[1] = "WriteCommandChar"
          /\ model.cursor.kind = "CommandLine"
          /\ model.cursor.x <= Len(Displayed(model)) )
        => LET old == Displayed(model)
               x   == model.cursor.x
           IN /\ panicked' = "no"
              /\ model'.current_command =
                    SubSeq(old, 1, x) \o Utf8(msg'[2]) \o SubSeq(old, x + 1, Len(old))
              /\ CharCount(model'.current_command) = CharCount(old) + 1
              /\ model'.cursor = CommandLine(x + 1)
              /\ model'.mode = model.mode
              /\ model'.outputs = model.outputs
              /\ model'.previous_commands = model.previous_commands
      ]_vars

\* The line of the viewed Output under a cursor on row y of the output pane,
\* as an Option: None when there is no viewed Output or no such line.
LineUnderCursor(m) ==
    LET o == Get(m.outputs, m.viewing_output)
    IN IF IsSome(o)
       THEN Get(Lines(Unwrap(o).stdout), m.cursor.y + Unwrap(o).scroll[1])
       ELSE None

\* C14: a Right applied with the cursor at OutputBuffer(x, y), x within the
\* line at y + scroll.0 of the viewed Output, leaves a column that does not
\* exceed the length of that line.
C14_RightCappedInOutput ==
    [][ ( /\ msg' # None
          /\ msg'[1] = "Right"
          /\ model.cursor.kind = "OutputBuffer"
          /\ IsSome(LineUnderCursor(model))
          /\ model.cursor.x <= Len(Unwrap(LineUnderCursor(model))) )
        => model'.cursor.x <= Len(Unwrap(LineUnderCursor(model)))
      ]_vars

\* C15: a Right applied with the cursor in the output pane completes without
\* a panic when the viewed Output has no line at y + scroll.0 and when outputs
\* is empty.
C15_RightFailsSoft ==
    [][ ( /\ msg' # None
          /\ msg'[1] = "Right"
          /\ model.cursor.kind = "OutputBuffer"
          /\ ~IsSome(LineUnderCursor(model)) )
        => panicked' = "no"
      ]_vars

\* The four messages that enter Insert mode.
InsertMessages == {"InsertBefore", "InsertAfter", "InsertBeforeLine", "InsertAfterLine"}

\* C16: Normal sets mode to Normal and leaves the cursor unchanged; the four
\* Insert messages set mode to Insert and end with a CommandLine cursor; no
\* other message, and no iteration without a message, changes mode; and no
\* message other than Up, Down and the four Insert messages changes the
\* cursor variant.
C16_ModeCursorFrame ==
    [][ /\ msg' = None => (model'.mode = model.mode /\ model'.cursor = model.cursor)
        /\ msg' # None =>
              /\ msg'[1] = "Normal" =>
                    (model'.mode = "Normal" /\ model'.cursor = model.cursor)
              /\ msg'[1] \in InsertMessages =>
                    /\ model'.mode = "Insert"
                    /\ panicked' = "no" => model'.cursor.kind = "CommandLine"
              /\ msg'[1] \notin InsertMessages \cup {"Normal"} =>
                    model'.mode = model.mode
              /\ msg'[1] \notin InsertMessages \cup {"Up", "Down"} =>
                    model'.cursor.kind = model.cursor.kind
      ]_vars

\* C16 witness: Normal was applied and the cursor is still at the end of a
\* two-byte buffer.
C16_Witness ==
    /\ Applied("Normal")
    /\ model.mode = "Normal"
    /\ model.cursor = CommandLine(2)
    /\ Len(model.current_command) = 2

\* C17: InsertBefore from a cursor with column x leaves mode Insert and the
\* cursor at CommandLine(min(x, L)), InsertAfter at CommandLine(min(x + 1, L)),
\* InsertBeforeLine at CommandLine(0) and InsertAfterLine at CommandLine(L),
\* L the length of the displayed text, for every column x the cursor reaches.
C17_InsertColumns ==
    [][ (msg' # None /\ msg'[1] \in InsertMessages)
        => LET x == model.cursor.x
               L == Len(Displayed(model))
           IN /\ panicked' = "no"
              /\ model'.mode = "Insert"
              /\ model'.cursor =
                    CommandLine(CASE msg'[1] = "InsertBefore" -> IF x <= L THEN x ELSE L
                                  [] msg'[1] = "InsertAfter" -> IF x + 1 <= L THEN x + 1 ELSE L
                                  [] msg'[1] = "InsertBeforeLine" -> 0
                                  [] msg'[1] = "InsertAfterLine" -> L)
      ]_vars

\* The key event Ctrl-D.
CtrlD == [code |-> "Char", c |-> "d", ctrl |-> TRUE]

\* C18: running_state becomes Done only in an iteration that applied Quit;
\* Quit is dispatched for Ctrl-D in Insert mode and for no other key in
\* either mode, Ctrl-D in Normal mode being ScrollDown; and from a state in
\* which running_state is Done nothing changes any more.
C18_QuitTerminal ==
    /\ [](/\ handle_key("Insert", CtrlD) = <<"Quit">>
          /\ handle_key("Normal", CtrlD) = <<"ScrollDown">>
          /\ \A key \in Keys :
                /\ handle_key("Normal", key) # <<"Quit">>
                /\ handle_key("Insert", key) = <<"Quit">> => key = CtrlD)
    /\ [][ /\ (model.running_state # "Done" /\ model'.running_state = "Done") =>
                 (msg' = <<"Quit">> /\ model.mode = "Insert")
           /\ model.running_state = "Done" => vars' = vars
         ]_vars

\* C18 witness: Quit was applied in a session that had run a command, and
\* running_state is Done.
C18_Witness ==
    /\ Applied("Quit")
    /\ model.running_state = "Done"
    /\ model.outputs # <<>>

\* The process has left main: it returned, unwound after a panic, or aborted.
Exited == term.pc \in {"returned_ok", "returned_err", "unwound", "aborted"}

\* C19: on every way the process leaves main on which no release call itself
\* failed, raw mode and the alternate screen are off, and each was released at
\* most once.
C19_TerminalReleased ==
    (Exited /\ ~term.release_failed) =>
        /\ ~term.raw_mode
        /\ ~term.alternate_screen
        /\ term.leaves <= 1
        /\ term.disables <= 1

\* C20: while the process runs in Insert mode the cursor is CommandLine(x)
\* with x no greater than the length of the displayed text.
C20_InsertColumnWithin ==
    (panicked = "no" /\ model.mode = "Insert") =>
        /\ model.cursor.kind = "CommandLine"
        /\ model.cursor.x <= Len(Displayed(model))

====
